---- MODULE Spec2Model ----
(***************************************************************************)
(* InfraGeoCalc: convex hull by Graham's scan with a chunked, threaded     *)
(* pre-sort (src/src/geometry.c), and the area / path-length metrics.      *)
(*                                                                         *)
(* Numbers.  Coordinates are C floats holding small integers, so every     *)
(* product and sum the code forms from them is exact and is modelled as    *)
(* an integer.  A float that need not be an integer (the result of sqrtf,  *)
(* of the division by 2.0f, and the sums of such values) is modelled as a  *)
(* whole number of 1/Scale units; sqrtf is exact on perfect squares and    *)
(* strictly monotone on the integers that occur here, as in float32.       *)
(*                                                                         *)
(* Arrays are functions on 0..count-1, indexed as in the source.           *)
(***************************************************************************)
EXTENDS Integers, Sequences, FiniteSets, TLC

\* ---------------------------------------------------------------- bounds
\* Generated inputs have x and y in 0..MaxCoord.
MaxCoord == 1
\* Generated inputs hold 0..MaxN points.
MaxN == 4
\* Requested thread counts range over 0..MaxThreads (0 is "below 1").
MaxThreads == 3
\* z values of the generated inputs: flat data (0) and one elevation.
ZVals == {0, 2}
\* The many-worker runs take inputs of 3..MaxPoints points and requested
\* thread counts 0..MaxWorkers.
MaxPoints == 7
MaxWorkers == 8

\* ------------------------------------------------------- float modelling
\* Resolution of the non-integer floats: one unit is 1/Scale.
Scale == 1024
\* EPSILON is 1e-6: fabsf(v) < EPSILON  <=>  |v| * EPSILON_INV < 1.
EPSILON_INV == 1000000

fabsf(v) == IF v < 0 THEN -v ELSE v

RECURSIVE ISqrtIter(_, _, _)
ISqrtIter(v, lo, hi) ==
    IF lo = hi THEN lo
    ELSE LET mid == (lo + hi + 1) \div 2
         IN  IF mid * mid <= v THEN ISqrtIter(v, mid, hi)
                               ELSE ISqrtIter(v, lo, mid - 1)

\* sqrtf of an integer-valued float n, in 1/Scale units.
sqrtf(n) == ISqrtIter(n * Scale * Scale, 0, 46340)

\* ------------------------------------------------------------ data model
Point(x, y, z) == [x |-> x, y |-> y, z |-> z]

\* A PointSet*; null models the NULL pointer.
PointSet(pts, n) == [null |-> FALSE, points |-> pts, count |-> n]
NULL == [null |-> TRUE, points |-> <<>>, count |-> 0]

\* The array holding the elements of the tuple s, in order.
Arr(s) == [k \in 0..(Len(s) - 1) |-> s[k + 1]]

\* ------------------------------------------------------------- variables
VARIABLES
    mode,         \* "hull": the set is given to compute_convex_hull;
                  \* "built": a caller-built PointSet is given to the metrics
    set,          \* the PointSet* argument of compute_convex_hull
    num_threads,  \* the int argument of compute_convex_hull (clamped in place)
    pc,           \* position of the initiating thread
    points,       \* the working copy (freed: <<>>)
    pivot,        \* the global pivot pointer: -1 is NULL, else an index of points
    args,         \* SortArg args[num_threads]
    threads,      \* per worker: "none", "running", "done", "joined"
    i,            \* the loop index of the loop the initiating thread is in
    offset,       \* size_t offset of the partition loop
    hull,         \* the PointSet* under construction / returned / measured
    area,         \* last value returned by compute_area (1/Scale units)
    length,       \* last value returned by compute_path_length (1/Scale units)
    round,        \* 0: first pass; 1: the caller has fed its result back
    first,        \* what the first pass produced: [hull, area]
    heap,         \* the blocks the current call allocated and has not freed
    oom           \* the allocation of the call that returns NULL ("none": none)

vars == <<mode, set, num_threads, pc, points, pivot, args, threads, i, offset,
          hull, area, length, round, first, heap, oom>>

\* The allocations of compute_convex_hull, in program order.
AllocSites == {"points", "hull", "hull->points", "realloc"}

\* ------------------------------------------------- geometric primitives
compute_distance(a, b) ==
    LET dx == a.x - b.x
        dy == a.y - b.y
        dz == a.z - b.z
    IN  sqrtf(dx * dx + dy * dy + dz * dz)

cross_product(o, a, b) ==
    (a.x - o.x) * (b.y - o.y) - (a.y - o.y) * (b.x - o.x)

is_collinear(a, b, c) == fabsf(cross_product(a, b, c)) * EPSILON_INV < 1

\* Mutant: the comparator orders clockwise.
compare_polar_Clockwise(pv, pa, pb) ==
    LET cross == cross_product(pv, pa, pb)
    IN  IF fabsf(cross) * EPSILON_INV < 1
        THEN IF compute_distance(pv, pa) < compute_distance(pv, pb) THEN -1 ELSE 1
        ELSE IF cross > 0 THEN 1 ELSE -1

\* The qsort comparator; pv is the point the global pivot refers to.
compare_polar(pv, pa, pb) ==
    LET cross == cross_product(pv, pa, pb)
    IN  IF fabsf(cross) * EPSILON_INV < 1
        THEN IF compute_distance(pv, pa) < compute_distance(pv, pb) THEN -1 ELSE 1
        ELSE IF cross > 0 THEN -1 ELSE 1

\* ------------------------------------------------------------------ qsort
Perms(S) == {f \in [S -> S] : \A a, b \in S : a # b => f[a] # f[b]}

\* The comparator does not report a after b.  It never returns 0, so for a
\* tie it answers 1 both ways and either order is in order.
InOrder(pv, a, b) == compare_polar(pv, a, b) < 0 \/ compare_polar(pv, b, a) > 0

\* qsort(arr + base, n, sizeof(Point), compare_polar): the arrays it can
\* leave.  The slice is permuted so that no neighbours are out of order; for
\* a consistent comparator that is the sorted order (ties in any order), and
\* for an inconsistent one (a cycle) every order a comparison sort can stop
\* at.
qsort(arr, base, n, pv) ==
    LET R == base..(base + n - 1)
        ok(f) == \A k \in R : (k + 1) \in R => InOrder(pv, arr[f[k]], arr[f[k + 1]])
    IN  {[k \in DOMAIN arr |-> IF k \in R THEN arr[f[k]] ELSE arr[k]] :
            f \in {g \in Perms(R) : ok(g)}}

\* ------------------------------------------------------------ the inputs
GenPoints == {Point(x, y, z) : x \in 0..MaxCoord, y \in 0..MaxCoord, z \in ZVals}

\* The triangle with an interior point, and the 3-4-5 triangle, of the tests.
WithInternal ==
    PointSet(Arr(<<Point(0,0,0), Point(4,0,0), Point(0,3,0), Point(1,1,0)>>), 4)
Triangle345 ==
    PointSet(Arr(<<Point(0,0,0), Point(3,0,0), Point(0,4,0)>>), 3)

\* Inputs beyond the grid: the documented ones, and flat and elevated sets
\* with collinear, interior and pivot-covering points.
Scenarios ==
    { WithInternal,
      Triangle345,
      PointSet(Arr(<<Point(0,0,0), Point(1,0,0), Point(2,0,0), Point(0,1,0)>>), 4),
      PointSet(Arr(<<Point(0,0,0), Point(1,0,0), Point(2,0,0), Point(3,0,0)>>), 4),
      PointSet(Arr(<<Point(0,0,0), Point(2,0,0), Point(0,1,0), Point(0,2,0)>>), 4),
      PointSet(Arr(<<Point(1,0,0), Point(2,1,0), Point(1,2,0), Point(0,1,0),
                     Point(1,1,0)>>), 5),
      PointSet(Arr(<<Point(0,0,0), Point(2,0,0), Point(3,1,0), Point(2,2,0),
                     Point(0,2,0)>>), 5),
      PointSet(Arr(<<Point(0,0,0), Point(0,1,0), Point(0,0,2), Point(2,1,0)>>), 4),
      PointSet(Arr(<<Point(0,0,0), Point(1,0,2), Point(2,0,1), Point(0,1,0)>>), 4),
      PointSet(Arr(<<Point(0,0,0), Point(1,0,2), Point(2,0,0), Point(0,1,0)>>), 4),
      PointSet(Arr(<<Point(2,1,0), Point(1,1,2), Point(0,2,0), Point(0,0,2),
                     Point(0,0,0)>>), 5) }

\* s is a PointSet the caller can hold: absent, a named scenario, or any
\* array of 0..MaxN grid points.
IsInput(s) ==
    \/ s \in {NULL} \cup Scenarios
    \/ \E n \in 0..MaxN : \E a \in [0..(n - 1) -> GenPoints] : s = PointSet(a, n)

\* ------------------------------------------------------------------ Init
Init ==
    /\ mode \in {"hull", "built"}
    /\ IF mode = "hull"
       THEN /\ IsInput(set)
            /\ num_threads \in 0..MaxThreads
            /\ hull = NULL
            /\ pc = "idle"
       ELSE /\ set = NULL
            /\ num_threads = 0
            /\ IsInput(hull)
            /\ pc = "built"
    /\ points = <<>>
    /\ pivot = -1
    /\ args = <<>>
    /\ threads = <<>>
    /\ i = 0
    /\ offset = 0
    /\ area = 0
    /\ length = 0
    /\ round = 0
    /\ first = [hull |-> NULL, area |-> 0]
    /\ heap = {}
    /\ oom = "none"

\* ------------------------------------------------- compute_convex_hull
RECURSIVE FindPivot(_, _, _, _)
\* The pivot search loop: k is the loop index, min_idx the running minimum.
FindPivot(pts, n, k, min_idx) ==
    IF k >= n THEN min_idx
    ELSE FindPivot(pts, n, k + 1,
            IF \/ pts[k].y < pts[min_idx].y
               \/ (pts[k].y = pts[min_idx].y /\ pts[k].x < pts[min_idx].x)
            THEN k ELSE min_idx)

\* Mutant: the guard lets a two-point set through.
TooFew_Below2(s) == s.null \/ s.count < 2

\* The guard of compute_convex_hull: !set || set->count < 3.
TooFew(s) == s.null \/ s.count < 3

\* Entry: the size guard, the clamp, the working copy (whose malloc may
\* return NULL), the pivot swap.
Enter ==
    /\ pc = "idle"
    /\ IF TooFew(set) \/ oom = "points"
       THEN /\ hull' = NULL
            /\ num_threads' = 0
            /\ pc' = "returned"
            /\ heap' = {}
            /\ UNCHANGED <<points, pivot, args, threads, i, offset>>
       ELSE LET nt == IF num_threads < 1 THEN 1 ELSE num_threads
                min_idx == FindPivot(set.points, set.count, 1, 0)
            IN  /\ num_threads' = nt
                /\ points' = [set.points EXCEPT ![0] = set.points[min_idx],
                                                ![min_idx] = set.points[0]]
                /\ pivot' = 0
                /\ args' = [k \in 0..(nt - 1) |-> [start |-> 0, end |-> 0]]
                /\ threads' = [k \in 0..(nt - 1) |-> "none"]
                /\ offset' = 1
                /\ i' = 0
                /\ pc' = "spawn"
                /\ heap' = {"points"}
                /\ UNCHANGED hull
    /\ UNCHANGED <<oom, mode, set, area, length, round, first>>

\* Mutant: the remainder goes to the last chunks instead of the first.
Spawn_RemainderLast ==
    /\ pc = "spawn"
    /\ LET remaining == set.count - 1
           chunk_size == remaining \div num_threads
           end == offset + chunk_size
                    + (IF i >= num_threads - (remaining % num_threads) THEN 1 ELSE 0)
       IN  /\ args' = [args EXCEPT ![i] = [start |-> offset, end |-> end]]
           /\ threads' = IF offset < end THEN [threads EXCEPT ![i] = "running"]
                                         ELSE threads
           /\ offset' = end
    /\ IF i + 1 < num_threads
       THEN i' = i + 1 /\ pc' = "spawn"
       ELSE i' = 0 /\ pc' = "join"
    /\ UNCHANGED <<heap, oom, mode, set, num_threads, points, pivot, hull, area,
                   length, round, first>>

\* One iteration of the partition loop: set args[i], spawn if non-empty.
Spawn ==
    /\ pc = "spawn"
    /\ LET remaining == set.count - 1
           chunk_size == remaining \div num_threads
           end == offset + chunk_size
                    + (IF i < remaining % num_threads THEN 1 ELSE 0)
       IN  /\ args' = [args EXCEPT ![i] = [start |-> offset, end |-> end]]
           /\ threads' = IF offset < end THEN [threads EXCEPT ![i] = "running"]
                                         ELSE threads
           /\ offset' = end
    /\ IF i + 1 < num_threads
       THEN i' = i + 1 /\ pc' = "spawn"
       ELSE i' = 0 /\ pc' = "join"
    /\ UNCHANGED <<heap, oom, mode, set, num_threads, points, pivot, hull, area, length,
                   round, first>>

\* A worker thread: qsort of its chunk.
sort_chunk(w) ==
    /\ threads[w] = "running"
    /\ points' \in qsort(points, args[w].start, args[w].end - args[w].start,
                         points[pivot])
    /\ threads' = [threads EXCEPT ![w] = "done"]
    /\ UNCHANGED <<heap, oom, mode, set, num_threads, pc, pivot, args, i, offset, hull,
                   area, length, round, first>>

\* Mutant: a worker is joined only when its chunk has two elements or more.
Join_SkipsSingleton ==
    /\ pc = "join"
    /\ IF args[i].start + 1 < args[i].end
       THEN /\ threads[i] = "done"
            /\ threads' = [threads EXCEPT ![i] = "joined"]
       ELSE UNCHANGED threads
    /\ IF i + 1 < num_threads
       THEN i' = i + 1 /\ pc' = "join"
       ELSE i' = 0 /\ pc' = "sort"
    /\ UNCHANGED <<heap, oom, mode, set, num_threads, points, pivot, args, offset,
                   hull, area, length, round, first>>

\* One iteration of the join loop; pthread_join blocks until the worker ends.
Join ==
    /\ pc = "join"
    /\ IF args[i].start < args[i].end
       THEN /\ threads[i] = "done"
            /\ threads' = [threads EXCEPT ![i] = "joined"]
       ELSE UNCHANGED threads
    /\ IF i + 1 < num_threads
       THEN i' = i + 1 /\ pc' = "join"
       ELSE i' = 0 /\ pc' = "sort"
    /\ UNCHANGED <<heap, oom, mode, set, num_threads, points, pivot, args, offset, hull,
                   area, length, round, first>>

\* The final full sort of everything after the pivot.
FinalSort ==
    /\ pc = "sort"
    /\ points' \in qsort(points, 1, set.count - 1, points[pivot])
    /\ pc' = "build"
    /\ UNCHANGED <<heap, oom, mode, set, num_threads, pivot, args, threads, i, offset,
                   hull, area, length, round, first>>

\* hull->points[hull->count++] = p
Push(h, p) ==
    [h EXCEPT !.points = [k \in 0..h.count |-> IF k < h.count THEN h.points[k] ELSE p],
              !.count = h.count + 1]

\* hull->count--
Pop(h) ==
    [h EXCEPT !.points = [k \in 0..(h.count - 2) |-> h.points[k]],
              !.count = h.count - 1]

\* Mutant: the early return is taken for a three-point input.
TwoPointInput_AtThree == set.count = 3

\* The test of the early return after the second push: set->count == 2.
TwoPointInput == set.count = 2

\* The hull record and its buffer are allocated (either malloc may return
\* NULL: what was allocated is freed and the call returns NULL), and the
\* hull is seeded with the first sorted points.
BuildInit ==
    /\ pc = "build"
    /\ LET h0 == PointSet(<<>>, 0)
           h2 == Push(Push(h0, points[0]), points[1])
       IN  IF oom \in {"hull", "hull->points"}
           THEN /\ hull' = NULL
                /\ heap' = {}
                /\ points' = <<>>
                /\ num_threads' = 0
                /\ args' = <<>>
                /\ threads' = <<>>
                /\ i' = 0
                /\ offset' = 0
                /\ pc' = "returned"
           ELSE IF TwoPointInput
           THEN /\ hull' = h2
                /\ heap' = {"hull", "hull->points"}
                /\ points' = <<>>
                /\ num_threads' = 0
                /\ args' = <<>>
                /\ threads' = <<>>
                /\ i' = 0
                /\ offset' = 0
                /\ pc' = "returned"
           ELSE /\ hull' = Push(h2, points[2])
                /\ heap' = {"points", "hull", "hull->points"}
                /\ i' = 3
                /\ pc' = "sweep"
                /\ UNCHANGED <<points, num_threads, args, threads, offset>>
    /\ UNCHANGED <<oom, mode, set, pivot, area, length, round, first>>

\* The while condition of the sweep for candidate points[i].
MustPop ==
    /\ hull.count >= 2
    /\ cross_product(hull.points[hull.count - 2], hull.points[hull.count - 1],
                     points[i]) <= 0

SweepPop ==
    /\ pc = "sweep"
    /\ i < set.count
    /\ MustPop
    /\ hull' = Pop(hull)
    /\ UNCHANGED <<heap, oom, mode, set, num_threads, pc, points, pivot, args, threads, i,
                   offset, area, length, round, first>>

SweepPush ==
    /\ pc = "sweep"
    /\ i < set.count
    /\ ~MustPop
    /\ hull' = Push(hull, points[i])
    /\ i' = i + 1
    /\ UNCHANGED <<heap, oom, mode, set, num_threads, pc, points, pivot, args, threads,
                   offset, area, length, round, first>>

\* Shrink to fit, free the working copy, return the hull.  The result of
\* realloc is stored in hull->points unchecked: when realloc returns NULL
\* the record keeps its count, its points pointer is NULL (the empty array)
\* and the buffer stays allocated with nothing referring to it.  The
\* callee's frame (num_threads, args, threads, i, offset) ends with the
\* call; the global pivot keeps pointing into the freed copy.
Return ==
    /\ pc = "sweep"
    /\ i >= set.count
    /\ hull' = IF oom = "realloc" THEN [hull EXCEPT !.points = <<>>] ELSE hull
    /\ heap' = heap \ {"points"}
    /\ points' = <<>>
    /\ num_threads' = 0
    /\ args' = <<>>
    /\ threads' = <<>>
    /\ i' = 0
    /\ offset' = 0
    /\ pc' = "returned"
    /\ UNCHANGED <<oom, mode, set, pivot, area, length, round, first>>

\* ---------------------------------------------------------------- metrics
RECURSIVE AreaLoop_NoWrap(_, _, _)
\* Mutant: the polygon is left open, the edge from the last vertex back to
\* the first is skipped.
AreaLoop_NoWrap(h, k, acc) ==
    IF k + 1 >= h.count THEN acc
    ELSE AreaLoop_NoWrap(h, k + 1,
                         acc + h.points[k].x * h.points[k + 1].y
                             - h.points[k + 1].x * h.points[k].y)

RECURSIVE AreaLoop(_, _, _)
\* The shoelace loop: k is the loop index, acc the running float area.
AreaLoop(h, k, acc) ==
    IF k >= h.count THEN acc
    ELSE LET j == (k + 1) % h.count
         IN  AreaLoop(h, k + 1,
                      acc + h.points[k].x * h.points[j].y
                          - h.points[j].x * h.points[k].y)

\* Mutant: the area guard asks for two vertices only.
compute_area_Below2(h) ==
    IF h.null \/ h.count < 2 THEN -Scale
    ELSE (fabsf(AreaLoop(h, 0, 0)) * Scale) \div 2

compute_area(h) ==
    IF h.null \/ h.count < 3 THEN -Scale
    ELSE (fabsf(AreaLoop(h, 0, 0)) * Scale) \div 2

RECURSIVE LengthLoop(_, _, _)
LengthLoop(h, k, acc) ==
    IF k >= h.count THEN acc
    ELSE LET j == (k + 1) % h.count
         IN  LengthLoop(h, k + 1, acc + compute_distance(h.points[k], h.points[j]))

compute_path_length(h) ==
    IF h.null \/ h.count < 2 THEN -Scale
    ELSE LengthLoop(h, 0, 0)

\* The caller measures the PointSet it holds: area, then path length.
ComputeArea ==
    /\ pc \in {"returned", "built"}
    /\ area' = compute_area(hull)
    /\ pc' = "area"
    /\ UNCHANGED <<heap, oom, mode, set, num_threads, points, pivot, args, threads, i,
                   offset, hull, length, round, first>>

ComputePathLength ==
    /\ pc = "area"
    /\ length' = compute_path_length(hull)
    /\ pc' = "measured"
    /\ UNCHANGED <<heap, oom, mode, set, num_threads, points, pivot, args, threads, i,
                   offset, hull, area, round, first>>

\* ----------------------------------------------------- the caller's moves
\* The caller gives the hull it got back to compute_convex_hull again, with
\* any thread count; it keeps the first hull, and its blocks, in first.
Rehull ==
    /\ pc = "measured"
    /\ mode = "hull"
    /\ round = 0
    /\ ~hull.null
    /\ first' = [hull |-> hull, area |-> area]
    /\ set' = hull
    /\ hull' = NULL
    /\ heap' = {}
    /\ num_threads' \in 0..MaxThreads
    /\ round' = 1
    /\ pc' = "idle"
    /\ UNCHANGED <<oom, mode, points, pivot, args, threads, i, offset, area, length>>

\* The caller builds the same polygon starting at its second vertex.
Rotate ==
    /\ pc = "measured"
    /\ mode = "built"
    /\ round = 0
    /\ ~hull.null
    /\ hull.count >= 1
    /\ first' = [hull |-> hull, area |-> area]
    /\ hull' = [hull EXCEPT !.points =
                  [k \in 0..(hull.count - 1) |-> hull.points[(k + 1) % hull.count]]]
    /\ round' = 1
    /\ pc' = "built"
    /\ UNCHANGED <<heap, oom, mode, set, num_threads, points, pivot, args, threads, i,
                   offset, area, length>>

\* The caller builds the same polygon walked the other way round.
Reverse ==
    /\ pc = "measured"
    /\ mode = "built"
    /\ round = 0
    /\ ~hull.null
    /\ hull.count >= 1
    /\ first' = [hull |-> hull, area |-> area]
    /\ hull' = [hull EXCEPT !.points =
                  [k \in 0..(hull.count - 1) |-> hull.points[hull.count - 1 - k]]]
    /\ round' = 2
    /\ pc' = "built"
    /\ UNCHANGED <<heap, oom, mode, set, num_threads, points, pivot, args, threads, i,
                   offset, area, length>>

Next ==
    \/ Enter
    \/ Spawn
    \/ \E w \in DOMAIN threads : sort_chunk(w)
    \/ Join
    \/ FinalSort
    \/ BuildInit
    \/ SweepPop
    \/ SweepPush
    \/ Return
    \/ ComputeArea
    \/ ComputePathLength
    \/ Rehull
    \/ Rotate
    \/ Reverse

\* The runs in which every allocation succeeds.
Spec == Init /\ [][Next]_vars

\* One call of compute_convex_hull in which one allocation, or none, fails.
InitAlloc ==
    /\ mode = "hull"
    /\ IsInput(set)
    /\ num_threads \in 0..MaxThreads
    /\ hull = NULL
    /\ pc = "idle"
    /\ points = <<>>
    /\ pivot = -1
    /\ args = <<>>
    /\ threads = <<>>
    /\ i = 0
    /\ offset = 0
    /\ area = 0
    /\ length = 0
    /\ round = 0
    /\ first = [hull |-> NULL, area |-> 0]
    /\ heap = {}
    /\ oom \in AllocSites \cup {"none"}

\* One call of compute_convex_hull, from entry to return.
NextCall ==
    \/ Enter
    \/ Spawn
    \/ \E w \in DOMAIN threads : sort_chunk(w)
    \/ Join
    \/ FinalSort
    \/ BuildInit
    \/ SweepPop
    \/ SweepPush
    \/ Return

SpecAlloc == InitAlloc /\ [][NextCall]_vars

\* An input of n points for the many-worker runs: a point on the chord from
\* the lowest point, then the points (k, k^2) from the right to the left, so
\* that the lowest point is last, every chunk is out of order and the sweep
\* pops.
Fan(n) ==
    PointSet([k \in 0..(n - 1) |->
                 IF k = 0 THEN Point(1, 2, 0)
                 ELSE Point(n - 1 - k, (n - 1 - k) * (n - 1 - k), 0)], n)

\* One call of compute_convex_hull with up to MaxWorkers workers, every
\* allocation succeeding.
InitThreads ==
    /\ mode = "hull"
    /\ set \in {Fan(n) : n \in 3..MaxPoints}
    /\ num_threads \in 0..MaxWorkers
    /\ hull = NULL
    /\ pc = "idle"
    /\ points = <<>>
    /\ pivot = -1
    /\ args = <<>>
    /\ threads = <<>>
    /\ i = 0
    /\ offset = 0
    /\ area = 0
    /\ length = 0
    /\ round = 0
    /\ first = [hull |-> NULL, area |-> 0]
    /\ heap = {}
    /\ oom = "none"

SpecThreads == InitThreads /\ [][NextCall]_vars

\* ============================================================== the claims
\* Vocabulary.  A call has returned a hull:
Returned == mode = "hull" /\ pc = "returned" /\ ~hull.null

Idx(s) == 0..(s.count - 1)
PointsOf(s) == {s.points[k] : k \in Idx(s)}
SameXY(p, q) == p.x = q.x /\ p.y = q.y

\* No two input points share their (x, y).
DistinctXY(s) ==
    \A k, m \in Idx(s) : k # m => ~SameXY(s.points[k], s.points[m])

\* q lies strictly between a and b on the segment from a to b.
StrictlyBetween(a, q, b) ==
    /\ cross_product(a, b, q) = 0
    /\ (q.x - a.x) * (b.x - q.x) + (q.y - a.y) * (b.y - q.y) > 0

\* q lies strictly inside the triangle a, b, c.
StrictlyInTriangle(a, b, c, q) ==
    /\ cross_product(a, b, c) > 0
    /\ cross_product(a, b, q) > 0
    /\ cross_product(b, c, q) > 0
    /\ cross_product(c, a, q) > 0

\* q is strictly interior to the convex hull of the points P: inside a
\* triangle of P, or on a chord of P that has points of P on both sides.
StrictlyInterior(q, P) ==
    \/ \E a, b, c \in P : StrictlyInTriangle(a, b, c, q)
    \/ \E a, b \in P : /\ StrictlyBetween(a, q, b)
                       /\ \E c \in P : cross_product(a, b, c) > 0
                       /\ \E d \in P : cross_product(a, b, d) < 0

\* p is the input point of lowest y, ties broken by lowest x.
IsLowest(p, P) ==
    \A q \in P : ~(q.y < p.y \/ (q.y = p.y /\ q.x < p.x))

\* ---------------------------------------------------------------------- C1
\* C1: a set that is absent or has fewer than 3 points never gets past the
\* entry of compute_convex_hull, whatever the thread count: the call is
\* always able to return, it returns NULL, and no hull is produced.
C1_TooFewPointsNoHull ==
    (mode = "hull" /\ (set.null \/ set.count < 3)) =>
        /\ hull.null
        /\ pc \in {"idle", "returned", "area", "measured"}
        /\ (pc = "idle" => ENABLED Enter)

C1_Witness ==
    /\ mode = "hull"
    /\ pc = "returned"
    /\ ~set.null
    /\ set.count = 2
    /\ hull.null

\* ---------------------------------------------------------------------- C2
\* The input is flat (every z is 0) and no two of its points coincide.
FlatDistinct(s) ==
    /\ \A k \in Idx(s) : s.points[k].z = 0
    /\ \A k, m \in Idx(s) : k # m => s.points[k] # s.points[m]

\* C2: a returned hull of at least 3 vertices is strict: every three
\* cyclically consecutive vertices turn counter-clockwise (orientation > 0)
\* and no vertex appears twice.  Stated for the plainest inputs the claim
\* covers, flat ones without repeated points, which include its example
\* {(0,0),(1,0),(2,0),(0,1)}.
C2_StrictHull ==
    (Returned /\ FlatDistinct(set) /\ hull.count >= 3) =>
        /\ \A k \in Idx(hull) :
              cross_product(hull.points[k],
                            hull.points[(k + 1) % hull.count],
                            hull.points[(k + 2) % hull.count]) > 0
        /\ \A k, m \in Idx(hull) : k # m => hull.points[k] # hull.points[m]

\* ---------------------------------------------------------------------- C3
\* C3: a returned hull starts with the lowest input point (lowest y, then
\* lowest x) and lists the other vertices in counter-clockwise order around
\* it; the sweep never pops that first vertex; and the hull of 3
\* non-collinear points is those 3 points in that order.
C3_PivotFirstCounterClockwise ==
    /\ Returned =>
          /\ IsLowest(hull.points[0], PointsOf(set))
          /\ \A k, m \in 1..(hull.count - 1) :
                k < m => cross_product(hull.points[0], hull.points[k],
                                       hull.points[m]) >= 0
    /\ pc = "sweep" => hull.count >= 1
    /\ (Returned /\ set.count = 3
          /\ cross_product(set.points[0], set.points[1], set.points[2]) # 0) =>
          /\ hull.count = 3
          /\ PointsOf(hull) = PointsOf(set)
          /\ cross_product(hull.points[0], hull.points[1], hull.points[2]) > 0

\* ---------------------------------------------------------------------- C4
\* C4: the returned polygon contains every input point: none is strictly
\* to the right of a directed hull edge, the closing edge included.
C4_ContainsInput ==
    Returned =>
        \A k \in Idx(hull) : \A q \in PointsOf(set) :
            cross_product(hull.points[k], hull.points[(k + 1) % hull.count], q) >= 0

\* ---------------------------------------------------------------------- C5
\* C5: when some input point is strictly interior to the input's convex
\* hull, the returned hull has fewer points than the input, and every
\* returned vertex is an input point.
C5_InteriorDropped ==
    Returned =>
        /\ PointsOf(hull) \subseteq PointsOf(set)
        /\ (\E q \in PointsOf(set) : StrictlyInterior(q, PointsOf(set))) =>
              hull.count < set.count

\* ---------------------------------------------------------------------- C6
\* Every input point lies on the boundary of the input's convex hull.
AllOnBoundary(s) ==
    \A q \in PointsOf(s) : ~StrictlyInterior(q, PointsOf(s))

\* The input is in convex position: its points differ pairwise in (x, y)
\* and each is a vertex of the convex hull, that is, none lies between two
\* others or inside a triangle of others.
ConvexPosition(s) ==
    /\ DistinctXY(s)
    /\ \A q \in PointsOf(s) :
          /\ ~\E a, b \in PointsOf(s) : StrictlyBetween(a, q, b)
          /\ ~\E a, b, c \in PointsOf(s) : StrictlyInTriangle(a, b, c, q)

\* C6 as stated: when every input point lies on the boundary of the input's
\* convex hull, the returned hull has as many points as the input.  Stated
\* for flat inputs without repeated points.
C6_BoundaryInputKept ==
    (Returned /\ FlatDistinct(set) /\ AllOnBoundary(set)) =>
        hull.count = set.count

\* C6 as amended: when the input is in convex position (pairwise distinct
\* points, each a vertex of the convex hull), the returned hull has as many
\* points as the input.
C6_ConvexPositionKept ==
    (Returned /\ ConvexPosition(set)) => hull.count = set.count

C6_Witness ==
    /\ Returned
    /\ ConvexPosition(set)
    /\ set.count = 4
    /\ hull.count = 4

\* ---------------------------------------------------------------------- C7
\* C7: the hull of a returned hull is a hull with the same vertex set,
\* also when the first hull is a degenerate 2-point one.
C7_Idempotent ==
    (mode = "hull" /\ round = 1 /\ pc = "returned") =>
        /\ ~hull.null
        /\ PointsOf(hull) = PointsOf(first.hull)

\* ---------------------------------------------------------------------- C8
RECURSIVE Sweep(_, _, _, _)
\* The sweep loop run to its end from candidate index k.
Sweep(h, pts, n, k) ==
    IF k >= n THEN h
    ELSE IF /\ h.count >= 2
            /\ cross_product(h.points[h.count - 2], h.points[h.count - 1],
                             pts[k]) <= 0
         THEN Sweep(Pop(h), pts, n, k)
         ELSE Sweep(Push(h, pts[k]), pts, n, k + 1)

\* The hull one fixed run without chunk workers returns for the set s: the
\* pivot swap, one full sort, the sweep.
OneRunHull(s) ==
    LET min_idx == FindPivot(s.points, s.count, 1, 0)
        swapped == [s.points EXCEPT ![0] = s.points[min_idx],
                                    ![min_idx] = s.points[0]]
        sorted == CHOOSE a \in qsort(swapped, 1, s.count - 1, swapped[0]) : TRUE
        h3 == Push(Push(Push(PointSet(<<>>, 0), sorted[0]), sorted[1]), sorted[2])
    IN  Sweep(h3, sorted, s.count, 3)

\* C8: the returned hull is the same, vertex for vertex, for every thread
\* count (0 included, clamped to 1) and every interleaving of the workers:
\* it is the hull of one fixed run on the same input.  Stated for inputs
\* whose points differ pairwise in (x, y).
C8_ThreadCountInvariant ==
    (Returned /\ DistinctXY(set)) => hull = OneRunHull(set)

\* ---------------------------------------------------------------------- C9
\* C9: compute_area returns -1 exactly when the hull is absent or has fewer
\* than 3 vertices, compute_path_length returns -1 exactly when it is absent
\* or has fewer than 2; every other value they return is non-negative.
C9_SentinelExact ==
    /\ pc \in {"area", "measured"} =>
          /\ (area = -Scale) <=> (hull.null \/ hull.count < 3)
          /\ area # -Scale => area >= 0
    /\ pc = "measured" =>
          /\ (length = -Scale) <=> (hull.null \/ hull.count < 2)
          /\ length # -Scale => length >= 0

C9_Witness ==
    /\ pc = "measured"
    /\ ~hull.null
    /\ hull.count = 2
    /\ area = -Scale
    /\ length > 0

\* --------------------------------------------------------------------- C10
RECURSIVE SumOver(_, _)
\* The sum of term[k] over the finite index set K.
SumOver(K, term) ==
    IF K = {} THEN 0
    ELSE LET k == CHOOSE x \in K : TRUE
         IN  term[k] + SumOver(K \ {k}, term)

\* The closed shoelace sum of the vertex sequence of h.
Shoelace(h) ==
    SumOver(Idx(h),
            [k \in Idx(h) |->
                LET n == IF k = h.count - 1 THEN 0 ELSE k + 1
                IN  h.points[k].x * h.points[n].y - h.points[n].x * h.points[k].y])

\* C10: for at least 3 vertices compute_area is half the absolute value of
\* the closed shoelace sum, so it is the same from any start vertex and in
\* either orientation; the documented triangles have area 6 and perimeter 12.
C10_ShoelaceArea ==
    /\ (pc \in {"area", "measured"} /\ ~hull.null /\ hull.count >= 3) =>
          /\ 2 * area = fabsf(Shoelace(hull)) * Scale
          /\ (mode = "built" /\ round >= 1) => area = first.area
    /\ (pc = "measured" /\ mode = "hull" /\ round = 0 /\ set = WithInternal) =>
          /\ hull.count = 3
          /\ area = 6 * Scale
          /\ length = 12 * Scale
    /\ (pc = "measured" /\ mode = "built" /\ round = 0 /\ hull = Triangle345) =>
          /\ area = 6 * Scale
          /\ length = 12 * Scale

C10_Witness ==
    /\ pc = "measured"
    /\ mode = "built"
    /\ round = 1
    /\ hull.count = 4
    /\ area > 0
    /\ hull.points[0] # first.hull.points[0]

\* --------------------------------------------------------------------- C11
\* The set s with every z replaced by 0: it agrees with s on the (x, y) of
\* every point at every index.
Flatten(s) ==
    [s EXCEPT !.points = [k \in DOMAIN s.points |-> [s.points[k] EXCEPT !.z = 0]]]

\* The sequence of (x, y) vertices of h.
XYSeq(h) == [k \in Idx(h) |-> <<h.points[k].x, h.points[k].y>>]

\* C11: z is ignored in hull construction: the returned hull has the same
\* sequence of (x, y) vertices as the hull of the input that agrees with it
\* on every (x, y) and has every z equal to 0.  Stated for inputs whose
\* points differ pairwise in (x, y), where the sort of the flat input has
\* one outcome; they include points collinear with the pivot.
C11_ZIgnored ==
    (Returned /\ DistinctXY(set)) =>
        XYSeq(hull) = XYSeq(OneRunHull(Flatten(set)))

\* --------------------------------------------------------------------- C12
\* C12: when an allocation inside compute_convex_hull fails (the working
\* copy, the hull record, the hull buffer, the shrinking realloc), the call
\* returns no result and has released every block it allocated; and no
\* returned hull has a positive count with its point storage absent.
C12_AllocFailureNoResult ==
    /\ (pc = "returned" /\ ~TooFew(set) /\ oom # "none") =>
          /\ hull.null
          /\ heap = {}
          /\ points = <<>>
    /\ (pc = "returned" /\ ~hull.null /\ hull.count > 0) => hull.points # <<>>

\* --------------------------------------------------------------------- C13
\* The point the pivot search selects in the set s.
PivotOf(s) == s.points[FindPivot(s.points, s.count, 1, 0)]

\* C13 as stated: for an input of exactly 3 points the call returns a
\* 2-point result, the pivot and the first sorted point, and the third point
\* is not appended.
C13_ThreePointShortCircuit ==
    (Returned /\ set.count = 3) =>
        /\ hull.count = 2
        /\ hull.points[0] = PivotOf(set)

\* C13 as amended: the 2-point early return is never taken; for an input of
\* exactly 3 points the sweep has nothing to do once the three points are
\* pushed (nothing is popped), and the call returns a 3-point result: the
\* pivot, then the two other input points in sorted order.
C13_ThreePointsAllKept ==
    /\ pc = "build" => ~TwoPointInput
    /\ (mode = "hull" /\ pc = "sweep" /\ set.count = 3) =>
          /\ i = 3
          /\ hull.count = 3
          /\ ~ENABLED SweepPop
          /\ ~ENABLED SweepPush
    /\ (Returned /\ set.count = 3) =>
          /\ hull.count = 3
          /\ hull.points[0] = PivotOf(set)
          /\ InOrder(hull.points[0], hull.points[1], hull.points[2])
          /\ \E f \in Perms(0..2) : \A k \in 0..2 : hull.points[k] = set.points[f[k]]

C13_Witness ==
    /\ Returned
    /\ round = 0
    /\ set.count = 3
    /\ hull.count = 3
    /\ hull.points[0] # set.points[0]
    /\ hull.points[1] = set.points[2]

\* --------------------------------------------------------------------- C14
\* The chunk [start, end) of worker k, and its size.
Chunk(k) == args[k].start..(args[k].end - 1)
ChunkSize(k) == args[k].end - args[k].start

\* C14: once the partition loop is over, the num_threads >= 1 chunks are
\* contiguous and pairwise disjoint, start at index 1 (the pivot slot 0 is
\* in none), end at index n, have sizes that sum to n - 1 and differ
\* pairwise by at most one with the larger chunks first, and a worker was
\* spawned for a chunk exactly when the chunk is non-empty; while the loop
\* runs that holds for the chunks already assigned, and no later worker
\* exists.
C14_ChunksPartition ==
    /\ (pc \in {"join", "sort", "build", "sweep"}) =>
          LET T == num_threads
              W == 0..(T - 1)
          IN  /\ T >= 1
              /\ DOMAIN args = W
              /\ args[0].start = 1
              /\ args[T - 1].end = set.count
              /\ \A k \in W : args[k].start <= args[k].end
              /\ \A k \in W : (k + 1) \in W => args[k + 1].start = args[k].end
              /\ \A k, m \in W : k # m => Chunk(k) \cap Chunk(m) = {}
              /\ \A k \in W : 0 \notin Chunk(k)
              /\ SumOver(W, [k \in W |-> ChunkSize(k)]) = set.count - 1
              /\ \A k, m \in W : k < m => (ChunkSize(k) - ChunkSize(m)) \in {0, 1}
              /\ \A k \in W : (threads[k] # "none") <=> (ChunkSize(k) > 0)
    /\ (pc = "spawn") =>
          /\ \A k \in 0..(i - 1) : (threads[k] # "none") <=> (ChunkSize(k) > 0)
          /\ \A k \in i..(num_threads - 1) : threads[k] = "none"
          /\ offset = IF i = 0 THEN 1 ELSE args[i - 1].end

\* Five chunks over five points: sizes 1, 1, 1, 1, 0, the last one without
\* a worker.
C14_Witness ==
    /\ pc = "join"
    /\ num_threads = 5
    /\ set.count = 5
    /\ ChunkSize(0) = 1
    /\ ChunkSize(4) = 0
    /\ threads[4] = "none"
    /\ threads[3] # "none"

\* --------------------------------------------------------------------- C15
\* The workers that have been created and have not finished: each may be
\* anywhere in its qsort.
Running == {w \in DOMAIN threads : threads[w] = "running"}

\* What worker w writes (the slice given to its qsort) and what it reads
\* (that slice, and the pivot slot through the comparator).
Writes(w) == Chunk(w)
Reads(w) == Chunk(w) \cup {pivot}

\* No two running workers touch a common element that one of them writes,
\* no worker's chunk holds the pivot slot or lies outside the working copy,
\* the initiating thread is in the partition or join loop as long as a
\* worker is not joined, and past the join loop exactly the workers of the
\* non-empty chunks were joined.
C15_NoRaceState ==
    /\ \A w, v \in Running :
          w # v => Writes(w) \cap (Reads(v) \cup Writes(v)) = {}
    /\ \A w \in DOMAIN threads :
          threads[w] # "none" =>
              /\ pivot \notin Writes(w)
              /\ Writes(w) \subseteq DOMAIN points
    /\ (\E w \in DOMAIN threads : threads[w] \in {"running", "done"}) =>
          pc \in {"spawn", "join"}
    /\ (pc \in {"sort", "build", "sweep"}) =>
          \A w \in DOMAIN threads :
              threads[w] = IF ChunkSize(w) > 0 THEN "joined" ELSE "none"

\* A step taken while workers run keeps the working copy allocated and the
\* pivot and the running workers' chunks as they are, and changes an element
\* of the working copy only if it is in the chunk of the worker that
\* finishes in that step; a worker becomes joined only from finished, and
\* stays joined until the call's frame ends.
C15_NoRaceStep ==
    /\ (Running # {}) =>
          /\ DOMAIN points' = DOMAIN points
          /\ pivot' = pivot
          /\ \A w \in Running : args'[w] = args[w]
          /\ \A k \in DOMAIN points :
                points'[k] # points[k] =>
                    \E w \in Running : threads'[w] = "done" /\ k \in Writes(w)
    /\ \A w \in DOMAIN threads \cap DOMAIN threads' :
          /\ (threads'[w] = "joined" /\ threads[w] # "joined") => threads[w] = "done"
          /\ threads[w] = "joined" => threads'[w] = "joined"
          /\ (threads[w] = "none" /\ threads'[w] # "none") =>
                (threads'[w] = "running" /\ pc = "spawn" /\ i = w)

\* C15: during one call no data race on the working array is reachable:
\* in every interleaving each worker writes only elements of its own chunk,
\* no worker writes the pivot slot all workers read, every spawned worker is
\* joined exactly once and no unspawned worker is joined, and the
\* initiating thread starts the final sort and the sweep, and releases the
\* working copy, only after every spawned worker has finished.
C15_NoDataRace == []C15_NoRaceState /\ [][C15_NoRaceStep]_vars

\* Three workers run at once while a fourth has finished and reordered its
\* chunk, and the initiating thread waits in the join loop.
C15_Witness ==
    /\ pc = "join"
    /\ Cardinality(Running) >= 3
    /\ \E w \in DOMAIN threads :
          /\ threads[w] = "done"
          /\ ChunkSize(w) >= 2
          /\ \E k \in Chunk(w) : points[k] # set.points[k]

====
